---- MODULE Spec2Model ----
(***************************************************************************)
(* Lifecycle of one metal Component (src/unnamed/part_000) and of the      *)
(* Timestamp component built on it (src/src/Timestamp.js).                 *)
(*                                                                         *)
(* Every public operation of the component is one action.  The methods are *)
(* operators from a component record to a component record, so that the    *)
(* calls a method makes (attach from renderComponent, informRendered from  *)
(* the renderer, forceUpdate from a forceUpdate callback) are part of the  *)
(* action that starts them.  `c` is the component; c.trace is the sequence *)
(* of method calls, emitted events and collaborator calls made by the last *)
(* operation, each entry with the values of inDocument, wasRendered,       *)
(* hasRendererRendered_, skipUpdates_, forceUpdateCallback_ and the        *)
(* element's parent at the moment of the call, whether informRendered had  *)
(* been called by then, and whether the event proxy, the data manager and  *)
(* the renderer were all still set.  The first entry of a trace is the     *)
(* operation itself with its arguments, so it shows the component as the   *)
(* operation found it.                                                     *)
(*                                                                         *)
(* Collaborators that are not part of the class are inputs: the renderer   *)
(* (whether render creates an element, whether render/update call          *)
(* informRendered before returning) and the callbacks given to             *)
(* forceUpdate (a plain one, and one that calls forceUpdate again).        *)
(***************************************************************************)
EXTENDS Integers, Sequences, FiniteSets, TLC

VARIABLES c

vars ==
  <<c>>

\* ---------------------------------------------------------------- bounds
\* Number of forceUpdate callbacks that may be waiting for informRendered.
MaxPending ==
  2

\* ---------------------------------------------------------------- inputs
\* Values given as parentElement to attach and renderComponent: undefined
\* or an element.
ParentArgs ==
  {"undef", "p1"}

\* Values given as parentElement to the constructor: also false and null.
CtorParentArgs ==
  ParentArgs \cup {"false", "null"}

\* Values given as siblingElement.
SiblingArgs ==
  {"undef", "s1"}

\* Config objects: none, {element} with a detached element, {element} with
\* an element that is already a child of p2.
ConfigArgs ==
  {"undef", "cfgEl", "cfgElDom"}

\* forceUpdate callbacks: cbA and cbN only return, cbF calls
\* forceUpdate(cbN).  cbN is given to forceUpdate by cbF only.
Callbacks ==
  {"cbA", "cbF", "cbN"}

\* Callbacks the application gives to forceUpdate itself, and no callback.
CallbackArgs ==
  {"cbA", "cbF", "undef"}

\* What the renderer does: mk - render creates the element when there is
\* none; inform - render/update call informRendered before returning.
RendererBehaviours ==
  [mk : BOOLEAN, inform : BOOLEAN]

\* State keys used in change events.
StateKeys ==
  {"time", "label"}

\* The keys of a changes object, in a fixed order.
KeysSeq(changes) ==
  SelectSeq(<<"label", "time">>, LAMBDA k : k \in changes)

\* How a call of updateRenderer_ or of the renderer's update is recorded:
\* as a forced update, or with the keys of data.changes.
DataArg(data) ==
  IF data.forceUpdate THEN <<"forceUpdate">>
  ELSE <<"changes">> \o KeysSeq(data.changes)

BoolStr(b) ==
  IF b THEN "true" ELSE "false"

\* ------------------------------------------------------------- recording
\* A call, event or assignment observed while an operation runs.
Log(s, e, a) ==
  [s EXCEPT !.trace = Append(@, [e |-> e, a |-> a, d |-> s.depth,
                                 inDoc |-> s.inDocument,
                                 wasR |-> s.wasRendered,
                                 hasR |-> s.hasRendererRendered_,
                                 skip |-> s.skipUpdates_,
                                 fuCb |-> s.forceUpdateCallback_,
                                 inf |-> s.informed,
                                 live |-> /\ s.elementEventProxy_ = "set"
                                          /\ s.dataManager_ = "set"
                                          /\ s.renderer_ = "set",
                                 par |-> s.elementParent])]

\* ------------------------------------------------------------ Timestamp
\* Times are counted in seconds (the code's milliseconds do not fit the
\* checker's integers).  A `time` value is a number, possibly with a
\* fraction, or a string of digits.
NumberTime(n) ==
  [type |-> "number", int |-> n, fraction |-> FALSE]

FractionTime(n) ==
  [type |-> "number", int |-> n, fraction |-> TRUE]

StringTime(n) ==
  [type |-> "string", int |-> n, fraction |-> FALSE]

\* The clock when the model starts, and the clock values it passes through.
Epoch0 ==
  1700000000

NowValues ==
  {Epoch0, Epoch0 + 30, Epoch0 + 600, Epoch0 + 90000}

\* Values of `time`: 0 (the default), a moment 20 s before Epoch0, the
\* same with a fraction, the same as a string, a moment 3 days before
\* Epoch0, and the string "0".
TimeValues ==
  {NumberTime(0), NumberTime(Epoch0 - 20), FractionTime(Epoch0 - 20),
   StringTime(Epoch0 - 20), NumberTime(Epoch0 - 259200), StringTime(0)}

\* `if (this.time)`: 0 is falsy, a non-empty string is truthy.
Truthy(time) ==
  time.type = "string" \/ time.int # 0 \/ time.fraction

\* parseInt(this.time, 10): the integer the decimal text starts with.
parseInt(time) ==
  time.int

\* title before any is set (Config.string().value(undefined)).
NoTitle ==
  <<"undefined", 0, "">>

\* The relativeTime strings of a locale: the ones updateMomentSyntax
\* installs for 'timestamp' and for 'duration', and moment's own for 'en'.
RelativeTime(type) ==
  CASE type = "timestamp" ->
         [s |-> "now", ss |-> "%d sec ago", m |-> "1 min ago",
          mm |-> "%d min ago", h |-> "1 hour ago", hh |-> "%d hours ago",
          d |-> "1 day ago", dd |-> "%d days ago", M |-> "1 month ago",
          MM |-> "%d months ago", y |-> "1 year ago", yy |-> "%d years ago"]
    [] type = "duration" ->
         [s |-> "now", ss |-> "%ds", m |-> "1min", mm |-> "%dmin",
          h |-> "1h", hh |-> "%dh", d |-> "1d", dd |-> "%dd",
          M |-> "1mo", MM |-> "%dmo", y |-> "1y", yy |-> "%dy"]
    [] OTHER ->
         [s |-> "a few seconds", ss |-> "%d seconds", m |-> "a minute",
          mm |-> "%d minutes", h |-> "an hour", hh |-> "%d hours",
          d |-> "a day", dd |-> "%d days", M |-> "a month",
          MM |-> "%d months", y |-> "a year", yy |-> "%d years"]

\* updateMomentSyntax(type): moment.updateLocale('en', relativeTimeObject);
\* the object is empty for a type other than 'timestamp' and 'duration'.
updateMomentSyntax(locale, type) ==
  IF type \in {"timestamp", "duration"} THEN type ELSE locale

\* x / y rounded to the nearest integer.
Round(x, y) ==
  (x \div y) + (IF 2 * (x % y) >= y THEN 1 ELSE 0)

\* moment(timestamp).fromNow(true): the relative time without 'in'/'ago'
\* wrapping, as the string of the locale and the number put in its %d.
fromNow(timestamp, now, locale) ==
  LET seconds == IF now >= timestamp THEN now - timestamp ELSE timestamp - now
      minutes == Round(seconds, 60)
      hours == Round(seconds, 3600)
      days == Round(seconds, 86400)
      months == Round(days * 4800, 146097)
      years == Round(days * 400, 146097)
      rt == RelativeTime(locale)
  IN IF seconds <= 44 THEN <<rt.s, seconds>>
     ELSE IF seconds < 45 THEN <<rt.ss, seconds>>
     ELSE IF minutes <= 1 THEN <<rt.m, 1>>
     ELSE IF minutes < 45 THEN <<rt.mm, minutes>>
     ELSE IF hours <= 1 THEN <<rt.h, 1>>
     ELSE IF hours < 22 THEN <<rt.hh, hours>>
     ELSE IF days <= 1 THEN <<rt.d, 1>>
     ELSE IF days < 26 THEN <<rt.dd, days>>
     ELSE IF months <= 1 THEN <<rt.M, 1>>
     ELSE IF months < 11 THEN <<rt.MM, months>>
     ELSE IF years <= 1 THEN <<rt.y, 1>>
     ELSE <<rt.yy, years>>

\* moment(timestamp).tz(timezone).format('MMM DD YYYY, h:mma (UTCZ)')
format(timestamp, timezone) ==
  <<"MMM DD YYYY, h:mma (UTCZ)", timestamp, timezone>>

\* The component before `new`: no field has been assigned.
NoComponent ==
  [constructed |-> FALSE, componentCreated_ |-> FALSE,
   elementEventProxy_ |-> "null", forceUpdateCallback_ |-> "null",
   inDocument |-> FALSE, initialConfig_ |-> "undef", wasRendered |-> FALSE,
   element |-> "undef", elementParent |-> "none",
   renderer_ |-> "null", dataManager_ |-> "null", syncUpdates_ |-> FALSE,
   hasRendererRendered_ |-> FALSE, skipUpdates_ |-> FALSE,
   attachData_ |-> <<>>, disposed_ |-> FALSE, ret |-> "undef",
   \* history: informRendered was entered; last of attached()/detached();
   \* arguments of the forceUpdate calls made since the last informRendered
   \* started or the last non-forced update was requested
   informed |-> FALSE, lastLifecycle |-> "none", owed |-> <<>>,
   depth |-> 0, trace |-> <<>>,
   \* Timestamp.STATE (defaults), for a component of class Timestamp
   class |-> "Component", time |-> NumberTime(0), hasTitle |-> FALSE,
   label |-> <<"", 0>>, title |-> NoTitle,
   \* what Timestamp.attached reads from outside the component: the clock,
   \* the relative-time strings moment has for 'en', the guessed time zone
   \* and whether the code runs on the server
   now |-> Epoch0, momentLocale |-> "en", timezone |-> "UTC",
   serverSide |-> FALSE]

RECURSIVE informRendered(_, _)
RECURSIVE forceUpdate(_, _, _)
RECURSIVE updateRenderer_(_, _, _)

\* ------------------------------------------------------- lifecycle hooks
created(s) ==
  Log(s, "created", <<>>)

willAttach(s) ==
  Log(s, "willAttach", <<>>)

\* Timestamp.attached that computes the label before it installs the
\* 'timestamp' syntax.
Timestamp_attached_labelFirst(s) ==
  IF s.serverSide THEN s
  ELSE IF Truthy(s.time)
  THEN LET timestamp == parseInt(s.time)
           s1 == [s EXCEPT !.label = fromNow(timestamp, s.now, s.momentLocale)]
           s2 == [Log(s1, "updateMomentSyntax", <<"timestamp">>) EXCEPT
                    !.momentLocale = updateMomentSyntax(@, "timestamp")]
       IN IF s2.hasTitle
          THEN [Log(s2, "set:title", <<>>) EXCEPT
                  !.title = format(timestamp, s2.timezone)]
          ELSE s2
  ELSE s

\* Timestamp.attached
Timestamp_attached(s) ==
  IF s.serverSide THEN s
  ELSE IF Truthy(s.time)
  THEN LET s1 == [Log(s, "updateMomentSyntax", <<"timestamp">>) EXCEPT
                    !.momentLocale = updateMomentSyntax(@, "timestamp")]
           timestamp == parseInt(s1.time)
           s2 == [Log(s1, "set:label", <<>>) EXCEPT
                    !.label = fromNow(timestamp, s1.now, s1.momentLocale)]
       IN IF s2.hasTitle
          THEN [Log(s2, "set:title", <<>>) EXCEPT
                  !.title = format(timestamp, s2.timezone)]
          ELSE s2
  ELSE s

\* Component.attached does nothing; Timestamp overrides it.
attached(s) ==
  LET s1 == [Log(s, "attached", <<>>) EXCEPT !.lastLifecycle = "attached"]
  IN IF s1.class = "Timestamp" THEN Timestamp_attached(s1) ELSE s1

willDetach(s) ==
  Log(s, "willDetach", <<>>)

detached(s) ==
  [Log(s, "detached", <<>>) EXCEPT !.lastLifecycle = "detached"]

disposed(s) ==
  Log(s, "disposed", <<>>)

rendered(s, firstRender) ==
  Log(s, "rendered", <<BoolStr(firstRender)>>)

\* toElement(parentElement) || this.DEFAULT_ELEMENT_PARENT
ParentOf(parentElement) ==
  IF parentElement \in {"p1", "p2"} THEN parentElement ELSE "body"

\* ------------------------------------------------------ attach / detach
attachElement(s, parentElement, siblingElement) ==
  IF s.element # "undef" /\ (siblingElement # "undef" \/ s.elementParent = "none")
  THEN [Log(s, "insertBefore", <<ParentOf(parentElement), siblingElement>>)
          EXCEPT !.elementParent = ParentOf(parentElement)]
  ELSE s

\* attach without the `if (!this.inDocument)` test.
attach_unguarded(s, parentElement, siblingElement) ==
  LET s0 == Log(s, "attach", <<parentElement, siblingElement>>)
      s1 == Log(s0, "emit:willAttach", <<>>)
      s2 == willAttach(s1)
      s3 == attachElement(s2, parentElement, siblingElement)
      s4 == [s3 EXCEPT !.inDocument = TRUE]
      s5 == [s4 EXCEPT !.attachData_ = <<parentElement, siblingElement>>]
      s6 == Log(s5, "emit:attached", s5.attachData_)
      s7 == attached(s6)
  IN [s7 EXCEPT !.ret = "this"]

\* attach that sets inDocument before the willAttach steps.
attach_flagFirst(s, parentElement, siblingElement) ==
  LET s0 == Log(s, "attach", <<parentElement, siblingElement>>)
  IN IF ~s0.inDocument
     THEN LET s1 == Log([s0 EXCEPT !.inDocument = TRUE], "emit:willAttach", <<>>)
              s2 == willAttach(s1)
              s3 == attachElement(s2, parentElement, siblingElement)
              s5 == [s3 EXCEPT !.attachData_ = <<parentElement, siblingElement>>]
              s6 == Log(s5, "emit:attached", s5.attachData_)
              s7 == attached(s6)
          IN [s7 EXCEPT !.ret = "this"]
     ELSE [s0 EXCEPT !.ret = "this"]

attach(s, parentElement, siblingElement) ==
  LET s0 == Log(s, "attach", <<parentElement, siblingElement>>)
  IN IF ~s0.inDocument
     THEN LET s1 == Log(s0, "emit:willAttach", <<>>)
              s2 == willAttach(s1)
              s3 == attachElement(s2, parentElement, siblingElement)
              s4 == [s3 EXCEPT !.inDocument = TRUE]
              s5 == [s4 EXCEPT !.attachData_ = <<parentElement, siblingElement>>]
              s6 == Log(s5, "emit:attached", s5.attachData_)
              s7 == attached(s6)
          IN [s7 EXCEPT !.ret = "this"]
     ELSE [s0 EXCEPT !.ret = "this"]

\* detach that calls detached() outside the `if (this.inDocument)` block.
detach_always(s) ==
  LET s0 == Log(s, "detach", <<>>)
      s4 == IF s0.inDocument
            THEN LET s1 == Log(s0, "emit:willDetach", <<>>)
                     s2 == willDetach(s1)
                     s3 == IF s2.element # "undef" /\ s2.elementParent # "none"
                           THEN [Log(s2, "removeChild", <<s2.elementParent>>)
                                   EXCEPT !.elementParent = "none"]
                           ELSE s2
                 IN [s3 EXCEPT !.inDocument = FALSE]
            ELSE s0
      s5 == detached(s4)
      s6 == Log(s5, "emit:detached", <<>>)
  IN [s6 EXCEPT !.ret = "this"]

\* detach that clears inDocument only after detached() has run.
detach_flagLast(s) ==
  LET s0 == Log(s, "detach", <<>>)
      s5 == IF s0.inDocument
            THEN LET s1 == Log(s0, "emit:willDetach", <<>>)
                     s2 == willDetach(s1)
                     s3 == IF s2.element # "undef" /\ s2.elementParent # "none"
                           THEN [Log(s2, "removeChild", <<s2.elementParent>>)
                                   EXCEPT !.elementParent = "none"]
                           ELSE s2
                     s4 == detached(s3)
                 IN [s4 EXCEPT !.inDocument = FALSE]
            ELSE s0
      s6 == Log(s5, "emit:detached", <<>>)
  IN [s6 EXCEPT !.ret = "this"]

detach(s) ==
  LET s0 == Log(s, "detach", <<>>)
      s5 == IF s0.inDocument
            THEN LET s1 == Log(s0, "emit:willDetach", <<>>)
                     s2 == willDetach(s1)
                     s3 == IF s2.element # "undef" /\ s2.elementParent # "none"
                           THEN [Log(s2, "removeChild", <<s2.elementParent>>)
                                   EXCEPT !.elementParent = "none"]
                           ELSE s2
                     s4 == [s3 EXCEPT !.inDocument = FALSE]
                 IN detached(s4)
            ELSE s0
      s6 == Log(s5, "emit:detached", <<>>)
  IN [s6 EXCEPT !.ret = "this"]

\* ------------------------------------------------------------ rendering
\* Setter of `element` followed by handleComponentElementChanged_.
setElement(s, val, parent) ==
  IF s.element # val
  THEN LET s1 == [s EXCEPT !.element = val, !.elementParent = parent]
       IN IF s1.componentCreated_
          THEN Log(s1, "emit:elementChanged", <<s.element, val>>)
          ELSE s1
  ELSE s

\* A forceUpdate callback runs; cbF calls forceUpdate(cbN) on the component.
invokeCallback(s, cb, rb) ==
  LET s1 == Log(s, "callback", <<cb>>)
  IN IF cb = "cbF" THEN forceUpdate(s1, "cbN", rb) ELSE s1

\* informRendered that reads hasRendererRendered_ after setting it.
informRendered_flagFirst(s, rb) ==
  LET s0 == Log([s EXCEPT !.depth = @ + 1], "informRendered", s.owed)
      s1 == [s0 EXCEPT !.hasRendererRendered_ = TRUE,
                       !.informed = TRUE, !.owed = <<>>]
      firstRender == ~s1.hasRendererRendered_
      s2 == IF s1.forceUpdateCallback_ \in Callbacks
            THEN [invokeCallback(s1, s1.forceUpdateCallback_, rb)
                    EXCEPT !.forceUpdateCallback_ = "null"]
            ELSE s1
      s3 == rendered(s2, firstRender)
      s4 == Log(s3, "emit:rendered", <<BoolStr(firstRender)>>)
  IN [s4 EXCEPT !.depth = @ - 1, !.ret = "undef"]

\* informRendered that clears forceUpdateCallback_ before it calls it.
informRendered_clearFirst(s, rb) ==
  LET s0 == Log([s EXCEPT !.depth = @ + 1], "informRendered", s.owed)
      firstRender == ~s0.hasRendererRendered_
      s1 == [s0 EXCEPT !.hasRendererRendered_ = TRUE,
                       !.informed = TRUE, !.owed = <<>>]
      s2 == IF s1.forceUpdateCallback_ \in Callbacks
            THEN invokeCallback([s1 EXCEPT !.forceUpdateCallback_ = "null"],
                                s1.forceUpdateCallback_, rb)
            ELSE s1
      s3 == rendered(s2, firstRender)
      s4 == Log(s3, "emit:rendered", <<BoolStr(firstRender)>>)
  IN [s4 EXCEPT !.depth = @ - 1, !.ret = "undef"]

informRendered(s, rb) ==
  LET s0 == Log([s EXCEPT !.depth = @ + 1], "informRendered", s.owed)
      firstRender == ~s0.hasRendererRendered_
      s1 == [s0 EXCEPT !.hasRendererRendered_ = TRUE,
                       !.informed = TRUE, !.owed = <<>>]
      s2 == IF s1.forceUpdateCallback_ \in Callbacks
            THEN [invokeCallback(s1, s1.forceUpdateCallback_, rb)
                    EXCEPT !.forceUpdateCallback_ = "null"]
            ELSE s1
      s3 == rendered(s2, firstRender)
      s4 == Log(s3, "emit:rendered", <<BoolStr(firstRender)>>)
  IN [s4 EXCEPT !.depth = @ - 1, !.ret = "undef"]

\* this.getRenderer().render(this)
rendererRender(s, rb) ==
  LET s1 == Log(s, "renderer.render", <<>>)
      s2 == IF rb.mk /\ s1.element = "undef"
            THEN setElement(s1, "el", "none")
            ELSE s1
  IN IF rb.inform THEN informRendered(s2, rb) ELSE s2

\* this.getRenderer().update(this, data)
rendererUpdate(s, data, rb) ==
  LET s1 == Log(s, "renderer.update", DataArg(data))
  IN IF rb.inform THEN informRendered(s1, rb) ELSE s1

\* updateRenderer_ that does not look at skipUpdates_.
updateRenderer_noSkip(s, data, rb) ==
  LET s0 == Log(s, "updateRenderer_", DataArg(data))
      s1 == IF ~data.forceUpdate
            THEN [s0 EXCEPT !.forceUpdateCallback_ = "null", !.owed = <<>>]
            ELSE s0
  IN IF s1.hasRendererRendered_
     THEN IF s1.renderer_ = "null"
          THEN Log(s1, "TypeError", <<>>)
          ELSE rendererUpdate(s1, data, rb)
     ELSE s1

updateRenderer_(s, data, rb) ==
  LET s0 == Log(s, "updateRenderer_", DataArg(data))
      s1 == IF ~data.forceUpdate
            THEN [s0 EXCEPT !.forceUpdateCallback_ = "null", !.owed = <<>>]
            ELSE s0
  IN IF ~s1.skipUpdates_ /\ s1.hasRendererRendered_
     THEN IF s1.renderer_ = "null"
          THEN Log(s1, "TypeError", <<>>)
          ELSE rendererUpdate(s1, data, rb)
     ELSE s1

forceUpdate(s, callback, rb) ==
  LET s0 == Log(s, "forceUpdate", <<callback>>)
      s1 == [s0 EXCEPT !.forceUpdateCallback_ = callback,
                       !.owed = Append(@, callback)]
      s2 == updateRenderer_(s1, [forceUpdate |-> TRUE, changes |-> {}], rb)
  IN [s2 EXCEPT !.ret = "undef"]

\* renderComponent without the `if (!this.hasRendererRendered_)` test.
renderComponent_alwaysRenders(s, parentElement, rb) ==
  LET s0 == Log(s, "renderComponent", <<parentElement>>)
      s1 == rendererRender(s0, rb)
      s2 == Log(s1, "emit:render", <<>>)
      s3 == Log(s2, "syncState", <<>>)
      s4 == attach(s3, parentElement, "undef")
      s5 == [s4 EXCEPT !.wasRendered = TRUE]
  IN [s5 EXCEPT !.ret = "undef"]

renderComponent(s, parentElement, rb) ==
  LET s0 == Log(s, "renderComponent", <<parentElement>>)
      s1 == IF ~s0.hasRendererRendered_ THEN rendererRender(s0, rb) ELSE s0
      s2 == Log(s1, "emit:render", <<>>)
      s3 == Log(s2, "syncState", <<>>)
      s4 == attach(s3, parentElement, "undef")
      s5 == [s4 EXCEPT !.wasRendered = TRUE]
  IN [s5 EXCEPT !.ret = "undef"]

\* ---------------------------------------------------------- construction
ConfigElement(config) ==
  IF config \in {"cfgEl", "cfgElDom"} THEN "el" ELSE "undef"

ConfigElementParent(config) ==
  IF config = "cfgElDom" THEN "p2" ELSE "none"

\* constructor that tests `if (parentElement)` instead of `!== false`.
constructor_truthy(s, config, parentElement, SYNC_UPDATES, rb) ==
  LET s0 == Log(s, "new", <<config, parentElement>>)
      s1 == [s0 EXCEPT !.constructed = TRUE,
                       !.elementEventProxy_ = "set",
                       !.forceUpdateCallback_ = "null",
                       !.inDocument = FALSE,
                       !.initialConfig_ = IF config \in {"undef", "null"}
                                          THEN "cfg0" ELSE config,
                       !.wasRendered = FALSE]
      s2 == setElement(s1, ConfigElement(s1.initialConfig_),
                       ConfigElementParent(s1.initialConfig_))
      s3 == [s2 EXCEPT !.renderer_ = "set", !.dataManager_ = "set",
                       !.syncUpdates_ = SYNC_UPDATES]
      s4 == created(s3)
      s5 == [s4 EXCEPT !.componentCreated_ = TRUE]
      s6 == IF parentElement \notin {"false", "null", "undef"}
            THEN renderComponent(s5, parentElement, rb)
            ELSE s5
  IN [s6 EXCEPT !.ret = "instance"]

constructor(s, config, parentElement, SYNC_UPDATES, rb) ==
  LET s0 == Log(s, "new", <<config, parentElement>>)
      s1 == [s0 EXCEPT !.constructed = TRUE,
                       !.elementEventProxy_ = "set",
                       !.forceUpdateCallback_ = "null",
                       !.inDocument = FALSE,
                       !.initialConfig_ = IF config \in {"undef", "null"}
                                          THEN "cfg0" ELSE config,
                       !.wasRendered = FALSE]
      s2 == setElement(s1, ConfigElement(s1.initialConfig_),
                       ConfigElementParent(s1.initialConfig_))
      s3 == [s2 EXCEPT !.renderer_ = "set", !.dataManager_ = "set",
                       !.syncUpdates_ = SYNC_UPDATES]
      s4 == created(s3)
      s5 == [s4 EXCEPT !.componentCreated_ = TRUE]
      s6 == IF parentElement # "false"
            THEN renderComponent(s5, parentElement, rb)
            ELSE s5
  IN [s6 EXCEPT !.ret = "instance"]

\* Component.render that hands the parent to the constructor.
render_ctorRenders(configOrElement, element, SYNC_UPDATES, rb) ==
  LET isEl == configOrElement \in {"p1", "p2"}
      config == IF isEl THEN "null" ELSE configOrElement
      elem == IF isEl THEN configOrElement ELSE element
      s0 == Log(NoComponent, "Component.render", <<configOrElement, element>>)
      instance == constructor(s0, config, elem, SYNC_UPDATES, rb)
  IN [instance EXCEPT !.ret = "instance"]

\* Component.render(Ctor, configOrElement, element)
render(configOrElement, element, SYNC_UPDATES, rb) ==
  LET isEl == configOrElement \in {"p1", "p2"}
      config == IF isEl THEN "null" ELSE configOrElement
      elem == IF isEl THEN configOrElement ELSE element
      s0 == Log(NoComponent, "Component.render", <<configOrElement, element>>)
      instance == constructor(s0, config, "false", SYNC_UPDATES, rb)
      s1 == renderComponent(instance, elem, rb)
  IN [s1 EXCEPT !.ret = "instance"]

\* ---------------------------------------------------------------- dispose
\* disposeInternal that calls disposed() and emits 'disposed' before it
\* detaches.
disposeInternal_disposedFirst(s) ==
  LET s0 == Log(s, "dispose", <<>>)
      s1 == disposed(s0)
      s2 == Log(s1, "emit:disposed", <<>>)
      s3 == detach(s2)
      s4 == [Log(s3, "elementEventProxy_.dispose", <<>>)
               EXCEPT !.elementEventProxy_ = "null"]
      s5 == [Log(s4, "dataManager_.dispose", <<>>)
               EXCEPT !.dataManager_ = "null"]
      s6 == [Log(s5, "renderer_.dispose", <<>>)
               EXCEPT !.renderer_ = "null"]
  IN [s6 EXCEPT !.disposed_ = TRUE, !.ret = "undef"]

disposeInternal(s) ==
  LET s0 == Log(s, "dispose", <<>>)
      s1 == detach(s0)
      s2 == disposed(s1)
      s3 == Log(s2, "emit:disposed", <<>>)
      s4 == [Log(s3, "elementEventProxy_.dispose", <<>>)
               EXCEPT !.elementEventProxy_ = "null"]
      s5 == [Log(s4, "dataManager_.dispose", <<>>)
               EXCEPT !.dataManager_ = "null"]
      s6 == [Log(s5, "renderer_.dispose", <<>>)
               EXCEPT !.renderer_ = "null"]
  IN [s6 EXCEPT !.disposed_ = TRUE, !.ret = "undef"]

\* ------------------------------------------------------- state listeners
willReceiveState(s, changes) ==
  Log(s, "willReceiveState", KeysSeq(changes))

handleStateWillChange_(s, changes) ==
  willReceiveState(Log(s, "handleStateWillChange_", KeysSeq(changes)), changes)

\* handleComponentStateChanged_ without the `if (!this.hasSyncUpdates())`
\* test.
handleComponentStateChanged_alwaysUpdates(s, changes, rb) ==
  LET s0 == Log(s, "handleComponentStateChanged_", KeysSeq(changes))
      s1 == updateRenderer_(s0, [forceUpdate |-> FALSE, changes |-> changes], rb)
      s2 == Log(s1, "syncState", KeysSeq(changes))
      s3 == Log(s2, "emit:stateSynced", KeysSeq(changes))
  IN [s3 EXCEPT !.ret = "undef"]

\* handleComponentStateChanged_ that emits 'stateSynced' first.
handleComponentStateChanged_syncedFirst(s, changes, rb) ==
  LET s0 == Log(s, "handleComponentStateChanged_", KeysSeq(changes))
      s1 == Log(s0, "emit:stateSynced", KeysSeq(changes))
      s2 == IF ~s1.syncUpdates_
            THEN updateRenderer_(s1, [forceUpdate |-> FALSE, changes |-> changes], rb)
            ELSE s1
      s3 == Log(s2, "syncState", KeysSeq(changes))
  IN [s3 EXCEPT !.ret = "undef"]

\* The event is the changes object it carries; syncState(this,
\* event.changes) and the 'stateSynced' event are recorded with its keys.
handleComponentStateChanged_(s, changes, rb) ==
  LET s0 == Log(s, "handleComponentStateChanged_", KeysSeq(changes))
      s1 == IF ~s0.syncUpdates_
            THEN updateRenderer_(s0, [forceUpdate |-> FALSE, changes |-> changes], rb)
            ELSE s0
      s2 == Log(s1, "syncState", KeysSeq(changes))
      s3 == Log(s2, "emit:stateSynced", KeysSeq(changes))
  IN [s3 EXCEPT !.ret = "undef"]

handleComponentStateKeyChanged_(s, key, rb) ==
  [updateRenderer_(Log(s, "handleComponentStateKeyChanged_", <<key>>),
                   [forceUpdate |-> FALSE, changes |-> {key}], rb)
     EXCEPT !.ret = "undef"]

\* A 'stateKeyChanged' event reaches the component: setUpSyncUpdates_ has
\* registered handleComponentStateKeyChanged_ only for sync updates.
emitStateKeyChanged(s, key, rb) ==
  LET s0 == Log(s, "stateKeyChanged", <<key>>)
  IN IF s0.syncUpdates_
     THEN handleComponentStateKeyChanged_(s0, key, rb)
     ELSE [s0 EXCEPT !.ret = "undef"]

\* setState({[key]: val}): the data manager stores the value.
setState(s, key, val) ==
  LET s0 == Log(s, "setState", <<key>>)
  IN IF key = "time" THEN [s0 EXCEPT !.time = val, !.ret = "undef"]
     ELSE IF key = "hasTitle" THEN [s0 EXCEPT !.hasTitle = val, !.ret = "undef"]
     ELSE [s0 EXCEPT !.ret = "undef"]

startSkipUpdates(s) ==
  [Log(s, "startSkipUpdates", <<>>) EXCEPT !.skipUpdates_ = TRUE, !.ret = "undef"]

stopSkipUpdates(s) ==
  [Log(s, "stopSkipUpdates", <<>>) EXCEPT !.skipUpdates_ = FALSE, !.ret = "undef"]

\* ================================================================ actions
\* The component as an operation finds it: the previous trace is dropped.
Self ==
  [c EXCEPT !.trace = <<>>]

\* The last operation's trace, and the operation that made it.
Trace ==
  c.trace

LastOp ==
  IF Trace = <<>> THEN "none" ELSE Trace[1].e

Init ==
  c = NoComponent

\* new Ctor(config, parentElement)
New ==
  /\ ~c.constructed
  /\ \E config \in ConfigArgs, parentElement \in CtorParentArgs,
        sync \in BOOLEAN, rb \in RendererBehaviours :
       c' = constructor(NoComponent, config, parentElement, sync, rb)

\* Component.render(Ctor, configOrElement, element)
StaticRender ==
  /\ ~c.constructed
  /\ \E coe \in ConfigArgs \cup {"p1", "p2"}, element \in {"undef", "p1"},
        sync \in BOOLEAN, rb \in RendererBehaviours :
       c' = render(coe, element, sync, rb)

Attach ==
  /\ c.constructed
  /\ \E parentElement \in ParentArgs, siblingElement \in SiblingArgs :
       c' = attach(Self, parentElement, siblingElement)

Detach ==
  /\ c.constructed
  /\ c' = detach(Self)

\* renderComponent throws on a disposed component (renderer_ and
\* dataManager_ are null) before it changes anything.
RenderComponent ==
  /\ c.constructed /\ ~c.disposed_
  /\ \E parentElement \in ParentArgs, rb \in RendererBehaviours :
       c' = renderComponent(Self, parentElement, rb)

\* dispose() runs disposeInternal once; a second dispose() does nothing.
Dispose ==
  /\ c.constructed /\ ~c.disposed_
  /\ c' = disposeInternal(Self)

ForceUpdate ==
  /\ c.constructed
  /\ Len(c.owed) < MaxPending
  /\ \E callback \in CallbackArgs, rb \in RendererBehaviours :
       c' = forceUpdate(Self, callback, rb)

\* The renderer reports a finished render.
InformRendered ==
  /\ c.constructed /\ ~c.disposed_
  /\ \E rb \in RendererBehaviours :
       c' = informRendered(Self, rb)

StartSkipUpdates ==
  /\ c.constructed
  /\ c' = startSkipUpdates(Self)

StopSkipUpdates ==
  /\ c.constructed
  /\ c' = stopSkipUpdates(Self)

\* The data manager emits 'stateWillChange'.
StateWillChange ==
  /\ c.constructed /\ ~c.disposed_
  /\ \E changes \in (SUBSET StateKeys) \ {{}} :
       c' = handleStateWillChange_(Self, changes)

\* The data manager emits the batched 'stateChanged'.
StateChanged ==
  /\ c.constructed /\ ~c.disposed_
  /\ \E changes \in (SUBSET StateKeys) \ {{}}, rb \in RendererBehaviours :
       c' = handleComponentStateChanged_(Self, changes, rb)

\* The data manager emits 'stateKeyChanged' for one key.
StateKeyChanged ==
  /\ c.constructed /\ ~c.disposed_
  /\ \E key \in StateKeys, rb \in RendererBehaviours :
       c' = emitStateKeyChanged(Self, key, rb)

Next ==
  \/ New
  \/ StaticRender
  \/ Attach
  \/ Detach
  \/ RenderComponent
  \/ Dispose
  \/ ForceUpdate
  \/ InformRendered
  \/ StartSkipUpdates
  \/ StopSkipUpdates
  \/ StateWillChange
  \/ StateChanged
  \/ StateKeyChanged

Spec ==
  Init /\ [][Next]_vars

\* ------------------------------------------------------ Timestamp actions
\* Time zones moment.tz.guess() may answer.
TimeZones ==
  {"UTC", "America/Sao_Paulo"}

\* The renderer of Timestamp (Soy.register) informs before render returns;
\* it makes the element on the client, and on the server there is no DOM.
SoyRenderer(serverSide) ==
  [mk |-> ~serverSide, inform |-> TRUE]

\* new Timestamp({time, hasTitle}, parentElement), on the client or on the
\* server.
NewTimestamp ==
  /\ ~c.constructed
  /\ \E time \in TimeValues, hasTitle \in BOOLEAN,
        parentElement \in {"undef", "false"}, serverSide \in BOOLEAN,
        timezone \in TimeZones :
       c' = constructor([Self EXCEPT !.class = "Timestamp", !.time = time,
                                     !.hasTitle = hasTitle,
                                     !.serverSide = serverSide,
                                     !.timezone = timezone],
                        "undef", parentElement, FALSE, SoyRenderer(serverSide))

\* component.attach()
AttachTimestamp ==
  /\ c.constructed
  /\ c' = attach(Self, "undef", "undef")

\* component.time = value
SetTime ==
  /\ c.constructed /\ ~c.disposed_
  /\ \E time \in TimeValues :
       /\ time # c.time
       /\ c' = setState(Self, "time", time)

\* component.hasTitle = value
SetHasTitle ==
  /\ c.constructed /\ ~c.disposed_
  /\ c' = setState(Self, "hasTitle", ~c.hasTitle)

\* Time passes.
Tick ==
  \E now \in NowValues :
    /\ now > c.now
    /\ c' = [Log(Self, "tick", <<>>) EXCEPT !.now = now]

\* Other code on the page calls updateMomentSyntax(type).
UpdateMomentSyntax ==
  \E type \in {"timestamp", "duration", "other"} :
    c' = [Log(Self, "updateMomentSyntax", <<type>>) EXCEPT
            !.momentLocale = updateMomentSyntax(@, type)]

NextTimestamp ==
  \/ NewTimestamp
  \/ AttachTimestamp
  \/ Detach
  \/ SetTime
  \/ SetHasTitle
  \/ Tick
  \/ UpdateMomentSyntax

SpecTimestamp ==
  Init /\ [][NextTimestamp]_vars

\* ================================================================= claims
\* The attached()/detached() calls of a trace, in order.
Lifecycle(tr) ==
  SelectSeq(tr, LAMBDA x : x.e \in {"attached", "detached"})

Has(e) ==
  \E i \in DOMAIN Trace : Trace[i].e = e

\* C1: over any sequence of operations attached() and detached() are called
\* in strict alternation, attached() first; after every operation
\* inDocument is true exactly when the last of the two called was
\* attached(), attached() runs with inDocument true and detached() with
\* inDocument false.
C1_LifecycleAlternates ==
  [][LET lc == Lifecycle(c'.trace)
         prev(i) == IF i = 1 THEN c.lastLifecycle ELSE lc[i - 1].e
     IN /\ \A i \in 1..Len(lc) :
             /\ lc[i].e = IF prev(i) = "attached" THEN "detached" ELSE "attached"
             /\ lc[i].inDoc = (lc[i].e = "attached")
        /\ c'.lastLifecycle = IF lc = <<>> THEN c.lastLifecycle ELSE lc[Len(lc)].e
        /\ c'.inDocument = (c'.lastLifecycle = "attached")]_vars

\* A detach that ran detached(), which only happens after an attached().
C1_Witness ==
  /\ LastOp = "detach"
  /\ Has("detached")
  /\ c.wasRendered
  /\ ~c.inDocument

\* C2: attach() on a component that is in the document emits nothing, calls
\* no lifecycle method, leaves the element where it is and the attach data
\* as they were, and returns the component.
C2_AttachWhileAttachedIsNoop ==
  [][\A i \in DOMAIN c'.trace :
       (c'.trace[i].e = "attach" /\ c'.trace[i].inDoc) =>
          /\ i = Len(c'.trace)
          /\ c'.inDocument
          /\ c'.elementParent = c'.trace[i].par
          /\ c'.attachData_ = c.attachData_
          /\ LastOp' = "attach" =>
                c' = [c EXCEPT !.trace = <<c'.trace[1]>>, !.ret = "this"]]_vars

\* attach(p1, s1) on a component in the document whose element sits under
\* another parent: an insertion would have moved it.
C2_Witness ==
  /\ LastOp = "attach"
  /\ Trace[1].inDoc
  /\ Trace[1].a = <<"p1", "s1">>
  /\ c.element = "el"
  /\ c.elementParent = "body"
  /\ c.attachData_ = <<"undef", "undef">>

\* The steps of the attach() that starts at entry i of tr, for a component
\* that is not in the document: k = 1 when the element is inserted.
AttachSteps(tr, i, element) ==
  /\ Len(tr) >= i + 4
  /\ LET k == IF tr[i + 3].e = "insertBefore" THEN 1 ELSE 0
     IN /\ Len(tr) >= i + 4 + k
        /\ tr[i + 1].e = "emit:willAttach" /\ ~tr[i + 1].inDoc
        /\ tr[i + 2].e = "willAttach" /\ ~tr[i + 2].inDoc
        /\ k = 1 => ~tr[i + 3].inDoc /\ tr[i + 3].par = tr[i].par
        /\ k = 1 <=> (element # "undef" /\ (tr[i].a[2] # "undef" \/ tr[i].par = "none"))
        /\ tr[i + 3 + k].e = "emit:attached"
        /\ tr[i + 3 + k].inDoc
        /\ tr[i + 3 + k].a = tr[i].a
        /\ k = 1 => tr[i + 3 + k].par = ParentOf(tr[i].a[1])
        /\ tr[i + 4 + k].e = "attached"
        /\ tr[i + 4 + k].inDoc
        /\ tr[i + 4 + k].par = tr[i + 3 + k].par

\* C3: an attach() on a component that is not in the document emits
\* 'willAttach', calls willAttach(), inserts the element, sets inDocument,
\* emits 'attached' with the {parent, sibling} it was given and calls
\* attached(), in this order: inDocument is false up to the insertion and
\* true from the 'attached' event on.
C3_AttachOrder ==
  \A i \in DOMAIN Trace :
    (Trace[i].e = "attach" /\ ~Trace[i].inDoc) => AttachSteps(Trace, i, c.element)

\* An attach(p1, s1) that inserted the element of a detached component.
C3_Witness ==
  /\ LastOp = "attach"
  /\ ~Trace[1].inDoc
  /\ Trace[1].a = <<"p1", "s1">>
  /\ Has("insertBefore")
  /\ c.elementParent = "p1"

\* The steps of the detach() that starts at entry i of tr, for a component
\* that is in the document: k = 1 when the element is removed.
DetachSteps(tr, i, element) ==
  /\ Len(tr) >= i + 4
  /\ LET k == IF tr[i + 3].e = "removeChild" THEN 1 ELSE 0
     IN /\ Len(tr) >= i + 4 + k
        /\ tr[i + 1].e = "emit:willDetach"
        /\ tr[i + 1].inDoc /\ tr[i + 1].par = tr[i].par
        /\ tr[i + 2].e = "willDetach"
        /\ tr[i + 2].inDoc /\ tr[i + 2].par = tr[i].par
        /\ k = 1 => tr[i + 3].inDoc /\ tr[i + 3].a = <<tr[i].par>>
        /\ k = 1 <=> (element # "undef" /\ tr[i].par # "none")
        /\ tr[i + 3 + k].e = "detached"
        /\ ~tr[i + 3 + k].inDoc
        /\ tr[i + 3 + k].par = "none"
        /\ tr[i + 4 + k].e = "emit:detached"
        /\ ~tr[i + 4 + k].inDoc

\* C4: a detach() on a component that is in the document emits
\* 'willDetach' and calls willDetach() while inDocument is true and the
\* element still has its parent, then removes the element, clears
\* inDocument, calls detached() and emits 'detached', in this order.
C4_DetachOrder ==
  \A i \in DOMAIN Trace :
    (Trace[i].e = "detach" /\ Trace[i].inDoc) => DetachSteps(Trace, i, c.element)

\* A detach() that removed the element from the parent it was attached to.
C4_Witness ==
  /\ LastOp = "detach"
  /\ Trace[1].inDoc
  /\ Trace[1].par = "p1"
  /\ Has("removeChild")
  /\ c.elementParent = "none"

\* C5: the constructor calls created() exactly once, before anything is
\* rendered; with parentElement false nothing is rendered and the new
\* component has inDocument and wasRendered false; with any other value,
\* undefined and null included, renderComponent(parentElement) is the call
\* that follows created().
C5_ConstructorRendersUnlessFalse ==
  \A i \in DOMAIN Trace :
    Trace[i].e = "new" =>
      /\ Cardinality({j \in DOMAIN Trace : Trace[j].e = "created"}) = 1
      /\ Len(Trace) >= i + 1
      /\ Trace[i + 1].e = "created"
      /\ ~Trace[i + 1].wasR /\ ~Trace[i + 1].hasR /\ ~Trace[i + 1].inDoc
      /\ c.ret = "instance"
      /\ IF Trace[i].a[2] = "false"
         THEN IF LastOp = "new"
              THEN /\ Len(Trace) = i + 1
                   /\ ~c.inDocument /\ ~c.wasRendered
                   /\ ~c.hasRendererRendered_
              ELSE /\ Len(Trace) >= i + 2
                   /\ ~Trace[i + 2].inDoc /\ ~Trace[i + 2].wasR
                   /\ ~Trace[i + 2].hasR
         ELSE /\ Len(Trace) >= i + 2
              /\ Trace[i + 2].e = "renderComponent"
              /\ Trace[i + 2].a = <<Trace[i].a[2]>>
              /\ c.wasRendered /\ c.inDocument

\* new Ctor({element}, false): created() ran, nothing else did.
C5_Witness ==
  /\ LastOp = "new"
  /\ Trace[1].a = <<"cfgEl", "false">>
  /\ Has("created")
  /\ ~Has("renderer.render")
  /\ ~c.wasRendered

\* C6: Component.render constructs the instance with parentElement false
\* (with a null config when configOrElement is an element), calls
\* renderComponent with the parent only after created() has run, so the
\* renderer's render comes after the constructor; the instance it returns
\* has wasRendered true.
C6_StaticRenderAfterConstructor ==
  LastOp = "Component.render" =>
    LET coe == Trace[1].a[1]
        isEl == coe \in {"p1", "p2"}
    IN /\ Len(Trace) >= 4
       /\ Trace[2].e = "new"
       /\ Trace[2].a = <<IF isEl THEN "null" ELSE coe, "false">>
       /\ Trace[3].e = "created"
       /\ Trace[4].e = "renderComponent"
       /\ Trace[4].a = <<IF isEl THEN coe ELSE Trace[1].a[2]>>
       /\ \A j \in DOMAIN Trace : Trace[j].e = "renderer.render" => j > 4
       /\ Has("renderer.render")
       /\ c.wasRendered
       /\ c.ret = "instance"

\* Component.render(Ctor, p2, p1): p2 is the parent, the element is made by
\* the renderer and attached to p2.
C6_Witness ==
  /\ LastOp = "Component.render"
  /\ Trace[1].a = <<"p2", "p1">>
  /\ Has("renderer.render")
  /\ c.elementParent = "p2"
  /\ c.wasRendered

\* Index of the first entry named e after entry i of tr, 0 when none.
NextIndex(tr, i, e) ==
  LET S == {k \in DOMAIN tr : k > i /\ tr[k].e = e}
  IN IF S = {} THEN 0 ELSE CHOOSE k \in S : \A m \in S : k <= m

InformEntries(tr, i) ==
  LET same == {k \in DOMAIN tr : k > i /\ tr[k].e = "informRendered"
                                      /\ tr[k].d = tr[i].d}
      stop == IF same = {} THEN Len(tr) + 1
              ELSE CHOOSE k \in same : \A m \in same : k <= m
  IN SelectSeq([k \in 1..(stop - 1 - i) |-> tr[i + k]],
               LAMBDA x : /\ x.d = tr[i].d
                          /\ x.e \in {"callback", "rendered", "emit:rendered"})

Names(es) ==
  [k \in DOMAIN es |-> es[k].e]

\* C8: the first informRendered call of a component passes true to
\* rendered() and to the 'rendered' event and every later call false; a
\* call invokes the pending forceUpdate callback, then rendered(), then
\* emits 'rendered'.
C8_InformRenderedSteps ==
  \A i \in DOMAIN Trace :
    Trace[i].e = "informRendered" =>
      LET es == InformEntries(Trace, i)
          first == <<BoolStr(~Trace[i].inf)>>
          n == Len(es)
      IN /\ Names(es) = IF Trace[i].fuCb \in Callbacks
                        THEN <<"callback", "rendered", "emit:rendered">>
                        ELSE <<"rendered", "emit:rendered">>
         /\ es[n - 1].a = first
         /\ es[n].a = first
         /\ n = 3 => es[1].a = <<Trace[i].fuCb>>
         /\ c.hasRendererRendered_
         /\ c.forceUpdateCallback_ \notin Callbacks

\* The first informRendered finds the callback cbF, whose forceUpdate makes
\* the renderer inform again inside the call: rendered(false) of the inner
\* call precedes rendered(true) of the first one.
C8_Witness ==
  /\ LastOp = "informRendered"
  /\ ~Trace[1].inf
  /\ Trace[1].fuCb = "cbF"
  /\ \E k \in DOMAIN Trace : k > 1 /\ Trace[k].e = "informRendered"
  /\ \E k \in DOMAIN Trace : Trace[k].e = "rendered" /\ Trace[k].a = <<"true">>

\* Number of times the informRendered call at entry i of tr invoked cb.
Invoked(tr, i, cb) ==
  Len(SelectSeq(InformEntries(tr, i),
                LAMBDA x : x.e = "callback" /\ x.a = <<cb>>))

\* Every forceUpdate asks for a renderer update with forceUpdate: true, and
\* the renderer is called with it when the component has rendered, is not
\* skipping updates and still has its renderer.
ForceUpdateAsksRenderer ==
  \A i \in DOMAIN Trace :
    Trace[i].e = "forceUpdate" =>
      /\ Len(Trace) >= i + 1
      /\ Trace[i + 1].e = "updateRenderer_"
      /\ Trace[i + 1].a = <<"forceUpdate">>
      /\ (Trace[i].hasR /\ ~Trace[i].skip /\ ~c.disposed_) =>
            /\ Len(Trace) >= i + 2
            /\ Trace[i + 2].e = "renderer.update"
            /\ Trace[i + 2].a = <<"forceUpdate">>

\* C9 as stated: every forceUpdate(cb) asks the renderer for an update with
\* forceUpdate: true when the component has rendered and is not skipping
\* updates, and the informRendered that follows invokes, exactly once,
\* every callback given to forceUpdate since the previous informRendered
\* started (or since the last non-forced update request), and no other.
C9_EveryCallbackInvokedOnce ==
  /\ ForceUpdateAsksRenderer
  /\ \A i \in DOMAIN Trace :
       Trace[i].e = "informRendered" =>
         \A cb \in Callbacks :
           Invoked(Trace, i, cb) =
             IF \E k \in DOMAIN Trace[i].a : Trace[i].a[k] = cb THEN 1 ELSE 0

\* The callback the informRendered call at entry i of tr has to invoke: the
\* argument of the latest forceUpdate call, unless that call was made by a
\* callback (cbF giving cbN) that has returned since, which is the case
\* when the informRendered call is not nested in another one.
Expected(tr, i) ==
  LET owed == tr[i].a
      latest == owed[Len(owed)]
  IN IF owed = <<>> THEN "none"
     ELSE IF latest = "undef" THEN "none"
     ELSE IF latest = "cbN" /\ tr[i].d = 1 THEN "none"
     ELSE latest

\* C9 as amended: every forceUpdate(cb) asks the renderer for an update
\* with forceUpdate: true when the component has rendered and is not
\* skipping updates; the informRendered that follows invokes cb exactly
\* once if no non-forced update was requested and forceUpdate was not
\* called again in between and, when forceUpdate was called by a
\* forceUpdate callback, that callback has not returned; otherwise cb is
\* not invoked, then or later.
C9_LatestCallbackInvokedOnce ==
  /\ ForceUpdateAsksRenderer
  /\ \A i \in DOMAIN Trace :
       Trace[i].e = "informRendered" =>
         \A cb \in Callbacks :
           Invoked(Trace, i, cb) = IF cb = Expected(Trace, i) THEN 1 ELSE 0

\* forceUpdate(cbA), then forceUpdate(cbF), then the renderer informs: cbF
\* runs, cbA does not; cbF's own forceUpdate(cbN) is answered by the
\* renderer before cbF returns, so cbN runs in the nested informRendered.
C9_Witness ==
  /\ LastOp = "informRendered"
  /\ Trace[1].a = <<"cbA", "cbF">>
  /\ Invoked(Trace, 1, "cbF") = 1
  /\ Invoked(Trace, 1, "cbA") = 0
  /\ \E k \in DOMAIN Trace :
       /\ Trace[k].e = "informRendered" /\ Trace[k].d = 2
       /\ Trace[k].a = <<"cbN">>
       /\ Invoked(Trace, k, "cbN") = 1

\* C10: the renderer's update is never called while updates are skipped,
\* nor before the first informRendered of the component.
C10_NoUpdateWhileSkippingOrUnrendered ==
  \A i \in DOMAIN Trace :
    Trace[i].e = "renderer.update" => (~Trace[i].skip /\ Trace[i].inf)

\* A forceUpdate(cbA) on a rendered component that is skipping updates: the
\* callback is stored and the renderer is left alone.
C10_Witness ==
  /\ LastOp = "forceUpdate"
  /\ Trace[1].a = <<"cbA">>
  /\ Trace[1].skip
  /\ Trace[1].hasR
  /\ ~c.disposed_
  /\ ~Has("renderer.update")
  /\ c.forceUpdateCallback_ = "cbA"

\* The entries of the last trace that are named e.
Entries(e) ==
  {i \in DOMAIN Trace : Trace[i].e = e}

\* One update request with the given data is made, and it reaches the
\* renderer, once and with the same data, exactly when the component has
\* rendered and is not skipping updates.
OneUpdateRequest(arg) ==
  /\ Cardinality(Entries("updateRenderer_")) = 1
  /\ \A i \in Entries("updateRenderer_") :
       /\ Trace[i].a = arg
       /\ Entries("renderer.update") =
            IF Trace[i].hasR /\ ~Trace[i].skip THEN {i + 1} ELSE {}
  /\ \A i \in Entries("renderer.update") : Trace[i].a = arg

NoUpdateRequest ==
  /\ Entries("updateRenderer_") = {}
  /\ Entries("renderer.update") = {}

\* C11: without sync updates the renderer update is requested once per
\* 'stateChanged' event, with the changes of the batch, and never for a
\* 'stateKeyChanged' event; with sync updates it is requested once per
\* 'stateKeyChanged' event, with changes holding that key only, and never
\* by the 'stateChanged' handler.  A request reaches the renderer when the
\* component has rendered and is not skipping updates.
C11_UpdatePerBatchOrPerKey ==
  /\ LastOp = "handleComponentStateChanged_" =>
       IF c.syncUpdates_
       THEN NoUpdateRequest
       ELSE OneUpdateRequest(<<"changes">> \o Trace[1].a)
  /\ LastOp = "stateKeyChanged" =>
       IF c.syncUpdates_
       THEN /\ Len(Trace) >= 2
            /\ Trace[2].e = "handleComponentStateKeyChanged_"
            /\ OneUpdateRequest(<<"changes">> \o Trace[1].a)
       ELSE /\ Len(Trace) = 1
            /\ NoUpdateRequest

\* A 'stateKeyChanged' event for time on a rendered component with sync
\* updates: the renderer is updated with {time}.
C11_Witness ==
  /\ LastOp = "stateKeyChanged"
  /\ c.syncUpdates_
  /\ Trace[1].a = <<"time">>
  /\ \E i \in Entries("renderer.update") : Trace[i].a = <<"changes", "time">>

\* C12: the handler of a 'stateChanged' event emits 'stateSynced' exactly
\* once, with the event it was given, as its last step: after the renderer
\* update, if there is one, and after syncState has run with the changes
\* of the event; with and without sync updates.  The handler of a
\* 'stateWillChange' event calls willReceiveState once, with the changes of
\* the event.
C12_StateSyncedAfterUpdateAndSync ==
  /\ LastOp = "handleComponentStateChanged_" =>
       LET n == Len(Trace)
       IN /\ n >= 3
          /\ Entries("emit:stateSynced") = {n}
          /\ Trace[n].a = Trace[1].a
          /\ Entries("syncState") = {n - 1}
          /\ Trace[n - 1].a = Trace[1].a
          /\ \A i \in Entries("updateRenderer_") \cup Entries("renderer.update")
                       \cup Entries("informRendered") \cup Entries("emit:rendered") :
               i < n - 1
  /\ LastOp = "handleStateWillChange_" =>
       /\ Len(Trace) = 2
       /\ Trace[2].e = "willReceiveState"
       /\ Trace[2].a = Trace[1].a

\* A batch {label, time} on a rendered component without sync updates
\* whose renderer informs before update returns: 'stateSynced' still comes
\* last.
C12_Witness ==
  /\ LastOp = "handleComponentStateChanged_"
  /\ ~c.syncUpdates_
  /\ Trace[1].a = <<"label", "time">>
  /\ Entries("renderer.update") # {}
  /\ Entries("emit:rendered") # {}
  /\ Trace[Len(Trace)].e = "emit:stateSynced"

\* C13: disposing detaches first, so willDetach() and detached() of a
\* component in the document run before disposed(); then disposed() is
\* called and 'disposed' emitted while the event proxy, the data manager
\* and the renderer are still set; these three are disposed and cleared
\* after that, in this order.  Afterwards inDocument is false and
\* getDataManager() and getRenderer() return null.
C13_DisposeOrder ==
  LastOp = "dispose" =>
    LET n == Len(Trace)
    IN /\ n >= 8
       /\ Trace[2].e = "detach"
       /\ Trace[1].inDoc => (Entries("willDetach") # {} /\ Entries("detached") # {})
       /\ ~Trace[1].inDoc => (Entries("willDetach") = {} /\ Entries("detached") = {})
       /\ Trace[n - 5].e = "emit:detached"
       /\ \A i \in Entries("willDetach") \cup Entries("detached") : i < n - 5
       /\ Trace[n - 4].e = "disposed"
       /\ Trace[n - 4].live /\ ~Trace[n - 4].inDoc
       /\ Trace[n - 3].e = "emit:disposed"
       /\ Trace[n - 3].live
       /\ Trace[n - 2].e = "elementEventProxy_.dispose"
       /\ Trace[n - 2].live
       /\ Trace[n - 1].e = "dataManager_.dispose"
       /\ Trace[n].e = "renderer_.dispose"
       /\ ~c.inDocument
       /\ c.elementEventProxy_ = "null"
       /\ c.dataManager_ = "null"
       /\ c.renderer_ = "null"

\* dispose() of a component in the document whose element is under p1.
C13_Witness ==
  /\ LastOp = "dispose"
  /\ Trace[1].inDoc
  /\ Trace[1].par = "p1"
  /\ Entries("detached") # {}
  /\ Entries("removeChild") # {}
  /\ c.renderer_ = "null"

\* C14: when an operation runs Timestamp.attached() on the client with a
\* truthy time, the 'timestamp' relative-time strings are installed and
\* label is the relative time, in those strings, between now and
\* parseInt(time, 10); title becomes the formatted date in the guessed
\* time zone when hasTitle is true and stays as it was otherwise.  This
\* happens at every attach; an operation that does not run attached(), a
\* change of time included, leaves label and title as they were.
C14_TimestampAttached ==
  [][LET ran == /\ \E i \in DOMAIN c'.trace : c'.trace[i].e = "attached"
                /\ ~c'.serverSide
                /\ Truthy(c'.time)
         timestamp == parseInt(c'.time)
     IN IF ran
        THEN /\ c'.momentLocale = "timestamp"
             /\ c'.label = fromNow(timestamp, c'.now, "timestamp")
             /\ \E k \in DOMAIN RelativeTime("timestamp") :
                  c'.label[1] = RelativeTime("timestamp")[k]
             /\ c'.title = IF c'.hasTitle
                           THEN format(timestamp, c'.timezone)
                           ELSE c.title
        ELSE /\ c'.label = c.label
             /\ c'.title = c.title]_vars

\* A re-attach ten minutes after the time, given with a fraction, while
\* hasTitle is true: the label is "10 min ago" and the title is set.
C14_Witness ==
  /\ LastOp = "attach"
  /\ c.class = "Timestamp"
  /\ ~c.serverSide
  /\ c.time = FractionTime(Epoch0 - 20)
  /\ c.now = Epoch0 + 600
  /\ c.hasTitle
  /\ Entries("attached") # {}
  /\ c.label = <<"%d min ago", 10>>
  /\ c.title = format(Epoch0 - 20, c.timezone)

====
